---- MODULE Spec2Model ----
(***************************************************************************)
(* The contradiction candidate pipeline of Witness_Mapper:                 *)
(*   scripts/results_processing.py  merge_unique_contradictions,           *)
(*                                  check_contradictions_with_context,     *)
(*                                  filter_correct_contr                   *)
(*   scripts/find_contr_part.py     break_into_chunks,                     *)
(*                                  evaluate_contradiction_sources         *)
(* Texts are sequences of one-character strings; a candidate's 'result' is *)
(* a sequence of words.  Every call of a language model is one step whose  *)
(* outcome (a reply text, or a raised exception) is chosen by the          *)
(* environment.  A Python list of dicts is a sequence of references, so    *)
(* that two equal records loaded from two files stay two candidates.       *)
(***************************************************************************)
EXTENDS Integers, Sequences, FiniteSets, TLC

VARIABLES
    \* merge_unique_contradictions
    setA, setB,          \* the records of file1_path and file2_path
    data1, data2,        \* the filtered lists; data1 becomes the merged list
    mpc,                 \* "open", "scan", "done", "aborted"
    bi, ai,              \* positions of entry2 in data2 and entry1 in data1
    match_found,
    dupCalls,            \* the chat.completions calls made so far, in order
    \* the candidate list and the corpus handed to
    \* check_contradictions_with_context / evaluate_contradiction_sources
    contradictions, full_docs,
    \* check_contradictions_with_context
    doc_chunks,          \* the three slices of full_docs
    vpc,                 \* "open", "extract", "decide", "done", "aborted"
    idx,                 \* position of entry in contradictions (0 before the loop)
    part,                \* position of chunk in doc_chunks
    relevant_context_parts,
    updated_contradictions,
    valCalls,            \* the chat.completions calls made so far, in order
    \* filter_correct_contr
    fpc,                 \* "checked", "filtered", "refiltered"
    correct_contr,       \* filter_correct_contr(checked)
    refiltered,          \* filter_correct_contr(correct_contr)
    \* evaluate_contradiction_sources
    apc,                 \* "next", "score", "repair", "done", "aborted"
    aidx,                \* position of entry in contradictions (0 before the loop)
    chunks, cidx,        \* break_into_chunks(doc_text) and the position in it
    best_score, best_chunk,
    prev_page, next_page,
    results,
    relCalls,            \* the scoring calls made for the entry at aidx
    compCalls,           \* the completion calls made for the entry at aidx
    \* break_into_chunks on its own
    input_text,          \* the text handed to break_into_chunks
    paragraphs,          \* break_into_chunks(input_text)
    rechunked,           \* break_into_chunks("\n\n".join(paragraphs))
    cpc,                 \* "text", "chunked", "rechunked"
    \* the script of find_contr_part.py
    readable,            \* the input files that exist and can be read
    correct_file,        \* the records of correct_contradictions.json
    flagged_file,        \* the records of flagged_contradictions.json
    corpus_file,         \* the pages of combined_doc_sections_with_tables.json
    saved,               \* the output files written so far, with their records
    dpc,                 \* "start", "first", "saved", "second", "done",
                         \* "unreadable"
    \* add_titles_to_entries
    merged_data,         \* the list as merge_unique_contradictions returned it
    updated_data,        \* the same list with the titles added so far
    tidx,                \* position of entry in the list (0 before the loop)
    tpc                  \* "loop", "done"

mergeVars == <<setA, setB, data1, data2, mpc, bi, ai, match_found, dupCalls>>

inputVars == <<contradictions, full_docs>>

validateVars == <<doc_chunks, vpc, idx, part, relevant_context_parts,
                  updated_contradictions, valCalls>>

filterVars == <<fpc, correct_contr, refiltered>>

attachVars == <<apc, aidx, chunks, cidx, best_score, best_chunk, prev_page,
                next_page, results, relCalls, compCalls>>

chunkVars == <<input_text, paragraphs, rechunked, cpc>>

driverVars ==
    <<readable, correct_file, flagged_file, corpus_file, saved, dpc>>

titleVars == <<merged_data, updated_data, tidx, tpc>>

vars ==
    <<mergeVars, inputVars, validateVars, filterVars, attachVars, chunkVars,
      driverVars, titleVars>>

-----------------------------------------------------------------------------
\* Bounds of the model.
MaxA == 2
MaxB == 2
MaxCands == 2
MaxPages == 4
MaxChecked == 3
MaxEntries == 2
MaxText == 5
MaxFile == 1
MaxMerged == 2
MaxRepaired == 1
MaxShuffled == 3

-----------------------------------------------------------------------------
\* Python str operations on sequences.

Range(s) == {s[i] : i \in 1..Len(s)}

SeqsUpTo(S, n) == UNION {[1..k -> S] : k \in 0..n}

\* s[i:i+len(sub)] == sub
OccursAt(s, sub, i) ==
    /\ i + Len(sub) - 1 <= Len(s)
    /\ \A k \in 1..Len(sub) : s[i + k - 1] = sub[k]

\* Python `sub in s`
Contains(s, sub) == \E i \in 1..(Len(s) + 1) : OccursAt(s, sub, i)

LowerChars == {"a", "b", "c", "d", "e", "n", "o", "s", "y"}
UpperChars == {"A", "B", "C", "D", "E", "N", "O", "S", "Y"}
DigitChars == {"0", "1", "2", "3", "4", "5", "6", "7", "8", "9"}

LowerOf(c) ==
    CASE c = "A" -> "a" [] c = "B" -> "b" [] c = "C" -> "c" [] c = "D" -> "d"
      [] c = "Y" -> "y" [] c = "E" -> "e" [] c = "S" -> "s"
      [] c = "N" -> "n" [] c = "O" -> "o" [] OTHER -> c

DigitOf(n) ==
    CASE n = 0 -> "0" [] n = 1 -> "1" [] n = 2 -> "2" [] n = 3 -> "3"
      [] n = 4 -> "4" [] n = 5 -> "5" [] n = 6 -> "6" [] n = 7 -> "7"
      [] n = 8 -> "8" [] n = 9 -> "9"

\* str.lower()
Lower(s) == [i \in 1..Len(s) |-> LowerOf(s[i])]

WhiteChars == {" ", "\n"}

\* str.strip()
Strip(s) ==
    LET keep == {i \in 1..Len(s) : s[i] \notin WhiteChars}
    IN  IF keep = {} THEN <<>>
        ELSE LET lo == CHOOSE i \in keep : \A j \in keep : i <= j
                 hi == CHOOSE i \in keep : \A j \in keep : i >= j
             IN  SubSeq(s, lo, hi)

\* dict.get(field): <<>> stands for None, <<v>> for a present value v
Get(entry, field) == IF field \in DOMAIN entry THEN <<entry[field]>> ELSE <<>>

\* the concatenation of a sequence of sequences
RECURSIVE Flatten(_)
Flatten(ss) == IF ss = <<>> THEN <<>> ELSE Head(ss) \o Flatten(Tail(ss))

\* [s[k] for k in positions of s if k in keep]
SelectIdx(s, keep) ==
    LET F[k \in 0..Len(s)] ==
            IF k = 0 THEN <<>>
            ELSE IF k \in keep THEN Append(F[k - 1], s[k]) ELSE F[k - 1]
    IN  F[Len(s)]

\* What a chat.completions call may give: a reply text, or an exception.
Reply(text) == [ok |-> TRUE, text |-> text]
Raised == [ok |-> FALSE, text |-> <<>>]

-----------------------------------------------------------------------------
\* The candidate records the two raw files may hold.

Contradiction(rationale) == <<"Contradiction:", rationale>>
Neutral(rationale) == <<"Neutral:", rationale>>

Cand(section, page, witness, result) ==
    [doc_section |-> section, doc_page |-> page,
     witness_statement |-> witness, result |-> result]

CandA1 == Cand("R1", 5, "X", Contradiction("r1"))
CandA2 == Cand("R1", 5, "X", Contradiction("r2"))
CandB1 == Cand("R1", 6, "X", Contradiction("r1"))
CandN1 == Cand("R1", 5, "X", Neutral("r3"))
\* a neutral verdict whose rationale uses the word "Contradiction:"
CandN2 == Cand("R1", 5, "X", Neutral("r4") \o <<"Contradiction:", "none">>)

MergePool == {CandA1, CandA2, CandB1, CandN1, CandN2}

\* A reference to a loaded record: the file it came from and its position.
Ref(file, pos) == [file |-> file, pos |-> pos]

Entry(ref) == IF ref.file = "A" THEN setA[ref.pos] ELSE setB[ref.pos]

-----------------------------------------------------------------------------
\* merge_unique_contradictions

\* The replies to "Reply only with 'yes' or 'no'".
DupYesTexts == {<<"Y", "e", "s", "\n">>}
DupNoTexts == {<<" ", "N", "o">>}

DupReplies == {Reply(t) : t \in DupYesTexts \cup DupNoTexts} \cup {Raised}

filter_any_result(entry) == "result" \in DOMAIN entry

\* lines 80-82: 'result' in entry and 'Contradiction:' in entry['result']
filter_contradictions(entry) ==
    "result" \in DOMAIN entry /\ Contains(entry.result, <<"Contradiction:">>)

Unfiltered(file, data) == [i \in 1..Len(data) |-> Ref(file, i)]

\* the list comprehension of filter_contradictions over one loaded file
Filtered(file, data) ==
    LET refs == [i \in 1..Len(data) |-> Ref(file, i)]
    IN  SelectIdx(refs, {i \in 1..Len(data) : filter_contradictions(data[i])})

same_reference_no_page(entry1, entry2) ==
    /\ Get(entry1, "doc_section") = Get(entry2, "doc_section")
    /\ Get(entry1, "witness_statement") = Get(entry2, "witness_statement")

same_reference(entry1, entry2) ==
    /\ Get(entry1, "doc_section") = Get(entry2, "doc_section")
    /\ Get(entry1, "doc_page") = Get(entry2, "doc_page")
    /\ Get(entry1, "witness_statement") = Get(entry2, "witness_statement")

answer_is_no(text) == Contains(Lower(Strip(text)), <<"n", "o">>)

\* answer = content.strip().lower(); "yes" in answer
answer_is_yes(text) == Contains(Lower(Strip(text)), <<"y", "e", "s">>)

InitMerge ==
    /\ setA \in SeqsUpTo(MergePool, MaxA)
    /\ setB \in SeqsUpTo(MergePool, MaxB)
    /\ data1 = <<>>
    /\ data2 = <<>>
    /\ mpc = "open"
    /\ bi = 1
    /\ ai = 1
    /\ match_found = FALSE
    /\ dupCalls = <<>>

MergeIdle ==
    /\ setA = <<>>
    /\ setB = <<>>
    /\ data1 = <<>>
    /\ data2 = <<>>
    /\ mpc = "idle"
    /\ bi = 1
    /\ ai = 1
    /\ match_found = FALSE
    /\ dupCalls = <<>>

\* lines 84-88: both files are loaded and filtered
MergeLoad ==
    /\ mpc = "open"
    /\ data1' = Filtered("A", setA)
    /\ data2' = Filtered("B", setB)
    /\ mpc' = "scan"
    /\ UNCHANGED <<setA, setB, bi, ai, match_found, dupCalls>>
    /\ UNCHANGED <<inputVars, validateVars, filterVars, attachVars, chunkVars, driverVars, titleVars>>

\* the inner loop without the break of line 120
InInnerLoopNoBreak ==
    /\ mpc = "scan"
    /\ bi <= Len(data2)
    /\ ai <= Len(data1)

\* lines 90-92, with the break of line 120
InInnerLoop ==
    /\ mpc = "scan"
    /\ bi <= Len(data2)
    /\ ai <= Len(data1)
    /\ ~match_found

\* lines 92-100: an entry1 with another reference is passed over
MergeCompare ==
    /\ InInnerLoop
    /\ ~same_reference(Entry(data1[ai]), Entry(data2[bi]))
    /\ ai' = ai + 1
    /\ UNCHANGED <<setA, setB, data1, data2, mpc, bi, match_found, dupCalls>>
    /\ UNCHANGED <<inputVars, validateVars, filterVars, attachVars, chunkVars, driverVars, titleVars>>

\* lines 100-120: the model is asked about entry1 and entry2
MergeAsk ==
    /\ InInnerLoop
    /\ same_reference(Entry(data1[ai]), Entry(data2[bi]))
    /\ \E r \in DupReplies :
        /\ dupCalls' = Append(dupCalls,
               [a |-> data1[ai], b |-> data2[bi], ok |-> r.ok, text |-> r.text])
        /\ IF ~r.ok
           THEN \* the exception leaves merge_unique_contradictions
                /\ mpc' = "aborted"
                /\ UNCHANGED <<ai, match_found>>
           ELSE IF answer_is_yes(r.text)
           THEN /\ match_found' = TRUE
                /\ UNCHANGED <<ai, mpc>>
           ELSE /\ ai' = ai + 1
                /\ UNCHANGED <<match_found, mpc>>
    /\ UNCHANGED <<setA, setB, data1, data2, bi>>
    /\ UNCHANGED <<inputVars, validateVars, filterVars, attachVars, chunkVars, driverVars, titleVars>>

\* lines 122-123, and the next entry2 with match_found = False (line 91)
MergeNext ==
    /\ mpc = "scan"
    /\ bi <= Len(data2)
    /\ (match_found \/ ai > Len(data1))
    /\ data1' = IF match_found THEN data1 ELSE Append(data1, data2[bi])
    /\ bi' = bi + 1
    /\ ai' = 1
    /\ match_found' = FALSE
    /\ UNCHANGED <<setA, setB, data2, mpc, dupCalls>>
    /\ UNCHANGED <<inputVars, validateVars, filterVars, attachVars, chunkVars, driverVars, titleVars>>

\* line 125
MergeReturn ==
    /\ mpc = "scan"
    /\ bi > Len(data2)
    /\ mpc' = "done"
    /\ UNCHANGED <<setA, setB, data1, data2, bi, ai, match_found, dupCalls>>
    /\ UNCHANGED <<inputVars, validateVars, filterVars, attachVars, chunkVars, driverVars, titleVars>>


NextMerge == MergeLoad \/ MergeCompare \/ MergeAsk \/ MergeNext \/ MergeReturn

-----------------------------------------------------------------------------
\* The corpus (combined_doc_sections_with_tables.json) and the candidate lists.

Page(section, page, text) == [section |-> section, page |-> page, text |-> text]

\* Pages 4, 5, 6 of section R1 ("A.", "B.", "C."), then pages of section R2.
CorpusPage(i) ==
    IF i = 1 THEN Page("R1", 4, <<"A", ".">>)
    ELSE IF i = 2 THEN Page("R1", 5, <<"B", ".">>)
    ELSE IF i = 3 THEN Page("R1", 6, <<"C", ".">>)
    ELSE Page("R2", i, <<"D", ".">>)

Corpus(n) == [i \in 1..n |-> CorpusPage(i)]

Corpora == {Corpus(n) : n \in 0..MaxPages}

\* entry[field] = value
WithField(entry, field, value) == (field :> value) @@ entry

InputIdle ==
    /\ contradictions = <<>>
    /\ full_docs = <<>>

-----------------------------------------------------------------------------
\* check_contradictions_with_context

NumChunks == 3

\* full_docs[lo:hi]
Slice(s, lo, hi) ==
    LET to == IF hi < Len(s) THEN hi ELSE Len(s)
    IN  IF lo >= to THEN <<>> ELSE SubSeq(s, lo + 1, to)

\* three slices of chunk_size pages each
SplitDocsEvenly(docs) ==
    LET chunk_size == Len(docs) \div NumChunks
    IN  [k \in 1..NumChunks |->
            Slice(docs, (k - 1) * chunk_size, k * chunk_size)]

\* lines 216-222
SplitDocs(docs) ==
    LET n == Len(docs)
        chunk_size == n \div NumChunks
    IN  [k \in 1..NumChunks |->
            LET i == k - 1
            IN  IF i < 2 THEN Slice(docs, i * chunk_size, (i + 1) * chunk_size)
                ELSE Slice(docs, i * chunk_size, n)]

ExtractReplies ==
    {Reply(<<>>), Reply(<<" ", "\n">>), Reply(<<"A", ".", "\n">>), Raised}

JudgeYesTexts == {<<"y", "e", "s">>, <<"Y", "e", "s", ".">>}
JudgeNoTexts == {<<"n", "o">>, <<" ", "N", "o", "\n">>}

JudgeReplies == {Reply(t) : t \in JudgeYesTexts \cup JudgeNoTexts} \cup {Raised}

ChunkLabel(i) == <<"--- From Chunk ">> \o <<DigitOf(i)>> \o <<" ---\n">>

\* f"--- From Chunk {i+1} ---\n{relevant}", i + 1 = k
ContextPart(k, relevant) == ChunkLabel(k) \o relevant

ValidatePool == {CandA1, CandB1}

InitValidate ==
    /\ contradictions \in SeqsUpTo(ValidatePool, MaxCands)
    /\ full_docs \in Corpora
    /\ doc_chunks = <<>>
    /\ vpc = "open"
    /\ idx = 0
    /\ part = 1
    /\ relevant_context_parts = <<>>
    /\ updated_contradictions = <<>>
    /\ valCalls = <<>>

ValidateIdle ==
    /\ doc_chunks = <<>>
    /\ vpc = "idle"
    /\ idx = 0
    /\ part = 1
    /\ relevant_context_parts = <<>>
    /\ updated_contradictions = <<>>
    /\ valCalls = <<>>

\* lines 212-224
ValidateOpen ==
    /\ vpc = "open"
    /\ doc_chunks' = SplitDocs(full_docs)
    /\ vpc' = "next"
    /\ UNCHANGED <<idx, part, relevant_context_parts, updated_contradictions,
                   valCalls>>
    /\ UNCHANGED <<mergeVars, inputVars, filterVars, attachVars, chunkVars, driverVars, titleVars>>

\* lines 226-228: the next entry
ValidateEntry ==
    /\ vpc = "next"
    /\ idx < Len(contradictions)
    /\ idx' = idx + 1
    /\ relevant_context_parts' = <<>>
    /\ part' = 1
    /\ valCalls' = <<>>
    /\ vpc' = "extract"
    /\ UNCHANGED <<doc_chunks, updated_contradictions>>
    /\ UNCHANGED <<mergeVars, inputVars, filterVars, attachVars, chunkVars, driverVars, titleVars>>

\* lines 230-264: the extraction call for one chunk of documents
ValidateExtract ==
    /\ vpc = "extract"
    /\ part <= Len(doc_chunks)
    /\ \E r \in ExtractReplies :
        /\ valCalls' = Append(valCalls,
               [oracle |-> "extract", part |-> part, ok |-> r.ok, text |-> r.text])
        /\ IF ~r.ok
           THEN \* the exception leaves check_contradictions_with_context
                /\ vpc' = "aborted"
                /\ UNCHANGED <<part, relevant_context_parts>>
           ELSE /\ relevant_context_parts' =
                       Append(relevant_context_parts,
                              ContextPart(part, Strip(r.text)))
                /\ part' = part + 1
                /\ UNCHANGED vpc
    /\ UNCHANGED <<doc_chunks, idx, updated_contradictions>>
    /\ UNCHANGED <<mergeVars, inputVars, filterVars, attachVars, chunkVars, driverVars, titleVars>>

\* lines 266-307: the skip test, then the decision call
ValidateDecide ==
    /\ vpc = "extract"
    /\ part > Len(doc_chunks)
    /\ IF relevant_context_parts = <<>>
       THEN /\ vpc' = "next"
            /\ UNCHANGED <<contradictions, updated_contradictions, valCalls>>
       ELSE \E r \in JudgeReplies :
            /\ valCalls' = Append(valCalls,
                   [oracle |-> "judge", part |-> 0, ok |-> r.ok, text |-> r.text])
            /\ IF ~r.ok
               THEN \* the exception leaves check_contradictions_with_context
                    /\ vpc' = "aborted"
                    /\ UNCHANGED <<contradictions, updated_contradictions>>
               ELSE /\ contradictions' =
                         [contradictions EXCEPT ![idx] =
                             WithField(@, "contr_correct", Lower(Strip(r.text)))]
                    /\ updated_contradictions' = Append(updated_contradictions, idx)
                    /\ vpc' = "next"
    /\ UNCHANGED <<full_docs, doc_chunks, idx, part, relevant_context_parts>>
    /\ UNCHANGED <<mergeVars, filterVars, attachVars, chunkVars, driverVars, titleVars>>

\* line 309
ValidateReturn ==
    /\ vpc = "next"
    /\ idx = Len(contradictions)
    /\ vpc' = "done"
    /\ UNCHANGED <<doc_chunks, idx, part, relevant_context_parts,
                   updated_contradictions, valCalls>>
    /\ UNCHANGED <<mergeVars, inputVars, filterVars, attachVars, chunkVars, driverVars, titleVars>>

NextValidate ==
    ValidateOpen \/ ValidateEntry \/ ValidateExtract \/ ValidateDecide
        \/ ValidateReturn

-----------------------------------------------------------------------------
\* filter_correct_contr

contr_correct_or_yes(entry) ==
    IF "contr_correct" \in DOMAIN entry THEN entry.contr_correct
    ELSE <<"y", "e", "s">>

\* entry.get("contr_correct", "")
contr_correct_or_default(entry) ==
    IF "contr_correct" \in DOMAIN entry THEN entry.contr_correct ELSE <<>>

\* "yes" in entry.get("contr_correct", "").strip().lower()
is_correct(entry) ==
    Contains(Lower(Strip(contr_correct_or_default(entry))), <<"y", "e", "s">>)

\* entries is a list of positions in contradictions
filter_correct_contr(entries) ==
    SelectIdx(entries,
              {k \in 1..Len(entries) : is_correct(contradictions[entries[k]])})

\* A checked entry carries the stripped, lowered decision text.
DecisionTexts == {Lower(Strip(t)) : t \in JudgeYesTexts \cup JudgeNoTexts}

FilterPool ==
    {CandA1} \cup {WithField(CandA1, "contr_correct", t) : t \in DecisionTexts}

InitFilter ==
    /\ contradictions \in SeqsUpTo(FilterPool, MaxChecked)
    /\ full_docs = <<>>
    /\ fpc = "checked"
    /\ correct_contr = <<>>
    /\ refiltered = <<>>

FilterIdle ==
    /\ fpc = "idle"
    /\ correct_contr = <<>>
    /\ refiltered = <<>>

\* the list handed to filter_correct_contr: every entry, in order
Checked == [k \in 1..Len(contradictions) |-> k]

\* line 330
FilterCorrect ==
    /\ fpc = "checked"
    /\ correct_contr' = filter_correct_contr(Checked)
    /\ fpc' = "filtered"
    /\ UNCHANGED refiltered
    /\ UNCHANGED <<mergeVars, inputVars, validateVars, attachVars, chunkVars, driverVars, titleVars>>

\* filter_correct_contr applied to its own output
FilterAgain ==
    /\ fpc = "filtered"
    /\ refiltered' = filter_correct_contr(correct_contr)
    /\ fpc' = "refiltered"
    /\ UNCHANGED correct_contr
    /\ UNCHANGED <<mergeVars, inputVars, validateVars, attachVars, chunkVars, driverVars, titleVars>>

NextFilter == FilterCorrect \/ FilterAgain

-----------------------------------------------------------------------------
\* break_into_chunks

\* "bullet" stands for the bullet glyph of line 52
ParagraphStarts == UpperChars \cup {"bullet", "("}

\* re.sub with count=1: only the first wrapped line is merged
MergeFirstWrappedLine(text) ==
    LET wrapped == {i \in 1..(Len(text) - 1) :
                       text[i] = "\n" /\ text[i + 1] \in LowerChars \cup DigitChars}
    IN  [i \in 1..Len(text) |->
            IF i \in wrapped /\ \A j \in wrapped : i <= j THEN " " ELSE text[i]]

\* line 51: re.sub(r'\n(?=[a-z0-9])', ' ', text)
MergeWrappedLines(text) ==
    [i \in 1..Len(text) |->
        IF text[i] = "\n" /\ i < Len(text)
              /\ text[i + 1] \in LowerChars \cup DigitChars
        THEN " " ELSE text[i]]

\* line 52: re.sub(r'\n(?=[A-Z bullet \(])', '\n\n', text)
ForceParagraphBreaks(text) ==
    Flatten([i \in 1..Len(text) |->
        IF text[i] = "\n" /\ i < Len(text) /\ text[i + 1] \in ParagraphStarts
        THEN <<"\n", "\n">> ELSE <<text[i]>>])

\* the number of consecutive line breaks of text from position i on
RECURSIVE BreakRun(_, _)
BreakRun(text, i) ==
    IF i <= Len(text) /\ text[i] = "\n" THEN 1 + BreakRun(text, i + 1) ELSE 0

\* line 53: re.split(r'\n{2,}', text), from position i on with piece cur open
RECURSIVE SplitFrom(_, _, _)
SplitFrom(text, i, cur) ==
    IF i > Len(text) THEN <<cur>>
    ELSE IF BreakRun(text, i) >= 2
         THEN <<cur>> \o SplitFrom(text, i + BreakRun(text, i), <<>>)
         ELSE SplitFrom(text, i + 1, Append(cur, text[i]))

\* the pieces of re.split as they are
break_into_chunks_unstripped(text) ==
    SplitFrom(ForceParagraphBreaks(MergeWrappedLines(text)), 1, <<>>)

\* lines 51-54
break_into_chunks(text) ==
    LET pieces == SplitFrom(ForceParagraphBreaks(MergeWrappedLines(text)), 1, <<>>)
        stripped == [k \in 1..Len(pieces) |-> Strip(pieces[k])]
    IN  SelectIdx(stripped, {k \in 1..Len(pieces) : stripped[k] # <<>>})

\* "\n\n".join(parts)
RECURSIVE JoinBlank(_)
JoinBlank(parts) ==
    IF parts = <<>> THEN <<>>
    ELSE IF Len(parts) = 1 THEN parts[1]
    ELSE parts[1] \o <<"\n", "\n">> \o JoinBlank(Tail(parts))

\* One character of each kind the three expressions tell apart: a lowercase
\* letter, a digit, an uppercase letter, an opening parenthesis, any other
\* printing character, a space and a line break.
TextChars == {"a", "1", "A", "(", ".", " ", "\n"}

InitChunk ==
    /\ input_text \in SeqsUpTo(TextChars, MaxText)
    /\ paragraphs = <<>>
    /\ rechunked = <<>>
    /\ cpc = "text"

ChunkIdle ==
    /\ input_text = <<>>
    /\ paragraphs = <<>>
    /\ rechunked = <<>>
    /\ cpc = "idle"

\* break_into_chunks(text)
ChunkText ==
    /\ cpc = "text"
    /\ paragraphs' = break_into_chunks(input_text)
    /\ cpc' = "chunked"
    /\ UNCHANGED <<input_text, rechunked>>
    /\ UNCHANGED <<mergeVars, inputVars, validateVars, filterVars, attachVars, driverVars, titleVars>>

\* break_into_chunks of the paragraphs joined with blank lines
ChunkAgain ==
    /\ cpc = "chunked"
    /\ rechunked' = break_into_chunks(JoinBlank(paragraphs))
    /\ cpc' = "rechunked"
    /\ UNCHANGED <<input_text, paragraphs>>
    /\ UNCHANGED <<mergeVars, inputVars, validateVars, filterVars, attachVars, driverVars, titleVars>>

NextChunk == ChunkText \/ ChunkAgain

-----------------------------------------------------------------------------
\* evaluate_contradiction_sources

DigitVal(c) ==
    CASE c = "0" -> 0 [] c = "1" -> 1 [] c = "2" -> 2 [] c = "3" -> 3
      [] c = "4" -> 4 [] c = "5" -> 5 [] c = "6" -> 6 [] c = "7" -> 7
      [] c = "8" -> 8 [] c = "9" -> 9

\* re.search(r"\d+", s) is not None
HasDigits(s) == \E i \in 1..Len(s) : s[i] \in DigitChars

\* re.search(r"\d+", s).group(): the first maximal run of digits
FirstDigits(s) ==
    LET lo == CHOOSE i \in 1..Len(s) :
                  s[i] \in DigitChars /\ \A j \in 1..(i - 1) : s[j] \notin DigitChars
        hi == CHOOSE i \in lo..Len(s) :
                  /\ \A j \in lo..i : s[j] \in DigitChars
                  /\ (i = Len(s) \/ s[i + 1] \notin DigitChars)
    IN  SubSeq(s, lo, hi)

\* int(digits)
RECURSIVE ToInt(_)
ToInt(ds) ==
    IF ds = <<>> THEN 0
    ELSE 10 * ToInt(SubSeq(ds, 1, Len(ds) - 1)) + DigitVal(ds[Len(ds)])

\* lines 118-119; defined when parses(text)
parse_score(text) == ToInt(FirstDigits(Strip(text)))

parses(text) == HasDigits(Strip(text))

score_beats_or_ties(score, best) == score >= best

\* line 121
score_beats(score, best) == score > best

SentenceEnds == {".", "!", "?"}

\* the test of the last character alone
seems_unfinished(chunk) ==
    chunk # <<>> /\ chunk[Len(chunk)] \notin SentenceEnds

\* line 138
seems_incomplete(chunk) ==
    /\ chunk # <<>>
    /\ (chunk[Len(chunk)] \notin SentenceEnds \/ chunk[1] \notin UpperChars)

\* lines 128-136: the scan of full_docs for the neighbouring pages
NeighbourScan(entry, docs) ==
    LET text(doc) == IF "text" \in DOMAIN doc THEN doc.text ELSE <<>>
        here(doc) == Get(doc, "section") = Get(entry, "doc_section")
        F[k \in 0..Len(docs)] ==
            IF k = 0
            THEN [prev |-> <<>>, next |-> <<>>, stop |-> FALSE, err |-> FALSE]
            ELSE LET st == F[k - 1]
                     doc == docs[k]
                 IN  IF st.stop \/ st.err THEN st
                     ELSE IF here(doc) /\ "doc_page" \notin DOMAIN entry
                     THEN [st EXCEPT !.err = TRUE]   \* None - 1: TypeError
                     ELSE LET p == IF here(doc)
                                      /\ Get(doc, "page") = <<entry.doc_page - 1>>
                                   THEN text(doc) ELSE st.prev
                              n == IF here(doc)
                                      /\ Get(doc, "page") = <<entry.doc_page + 1>>
                                   THEN text(doc) ELSE st.next
                          IN  [prev |-> p, next |-> n,
                               stop |-> p # <<>> /\ n # <<>>, err |-> FALSE]
    IN  F[Len(docs)]

from_either_table(entry) ==
    "doc_type" \in DOMAIN entry \/ "w_s_type" \in DOMAIN entry

\* line 85: "doc_type" in entry
from_table(entry) == "doc_type" \in DOMAIN entry

\* the replies to "Return only a number from 1 to 10."
RelevanceReplies ==
    {Reply(<<"7">>), Reply(<<" ", "9", "\n">>), Reply(<<"1", "2">>),
     Reply(<<"n", "o">>), Raised}

CompletionReplies == {Reply(<<"C", ".", "\n">>), Raised}

EntryThree == WithField(CandA1, "doc_text", <<"A", ".", "\n", "B", ".", "\n", "C">>)
EntryTable == WithField(EntryThree, "doc_type", <<"t", "a", "b", "l", "e">>)
EntryEmpty == WithField(CandA1, "doc_text", <<"\n">>)
\* the witness statement comes from a table, the document text is prose
EntryWitnessTable ==
    WithField(WithField(CandB1, "doc_text", <<"A", ".">>),
              "w_s_type", <<"t", "a", "b", "l", "e">>)

\* records of the file that lack a field
Without(entry, field) == [f \in DOMAIN entry \ {field} |-> entry[f]]

EntryNoResult == Without(EntryThree, "result")
EntryNoText == Without(EntryThree, "doc_text")
EntryNoPage == Without(WithField(CandA1, "doc_text", <<"B", ".">>), "doc_page")

AttachPool ==
    {EntryThree, EntryTable, EntryEmpty, EntryWitnessTable,
     EntryNoResult, EntryNoText, EntryNoPage}

InitAttach ==
    /\ contradictions \in SeqsUpTo(AttachPool, MaxEntries)
    /\ full_docs \in Corpora
    /\ apc = "next"
    /\ aidx = 0
    /\ chunks = <<>>
    /\ cidx = 1
    /\ best_score = -1
    /\ best_chunk = <<>>
    /\ prev_page = <<>>
    /\ next_page = <<>>
    /\ results = <<>>
    /\ relCalls = <<>>
    /\ compCalls = <<>>

AttachIdle ==
    /\ apc = "idle"
    /\ aidx = 0
    /\ chunks = <<>>
    /\ cidx = 1
    /\ best_score = -1
    /\ best_chunk = <<>>
    /\ prev_page = <<>>
    /\ next_page = <<>>
    /\ results = <<>>
    /\ relCalls = <<>>
    /\ compCalls = <<>>

\* lines 85-89: an entry from a table is passed through
AttachSkipTable ==
    /\ apc = "next"
    /\ aidx < Len(contradictions)
    /\ from_table(contradictions[aidx + 1])
    /\ aidx' = aidx + 1
    /\ results' = Append(results, aidx + 1)
    /\ chunks' = <<>>
    /\ cidx' = 1
    /\ best_score' = -1
    /\ best_chunk' = <<>>
    /\ prev_page' = <<>>
    /\ next_page' = <<>>
    /\ relCalls' = <<>>
    /\ compCalls' = <<>>
    /\ UNCHANGED apc
    /\ UNCHANGED <<mergeVars, inputVars, validateVars, filterVars, chunkVars, driverVars, titleVars>>

\* lines 91-96: the entry's text is chunked
AttachChunks ==
    /\ apc = "next"
    /\ aidx < Len(contradictions)
    /\ ~from_table(contradictions[aidx + 1])
    /\ aidx' = aidx + 1
    /\ LET entry == contradictions[aidx + 1]
       IN  IF {"result", "doc_text"} \subseteq DOMAIN entry
           THEN /\ chunks' = break_into_chunks(entry.doc_text)
                /\ apc' = "score"
           ELSE \* KeyError leaves evaluate_contradiction_sources
                /\ chunks' = <<>>
                /\ apc' = "aborted"
    /\ cidx' = 1
    /\ best_score' = -1
    /\ best_chunk' = <<>>
    /\ prev_page' = <<>>
    /\ next_page' = <<>>
    /\ relCalls' = <<>>
    /\ compCalls' = <<>>
    /\ UNCHANGED results
    /\ UNCHANGED <<mergeVars, inputVars, validateVars, filterVars, chunkVars, driverVars, titleVars>>

\* the scoring call with a failed or unreadable reply counted as the score 0
AttachScoreFailedAsZero ==
    /\ apc = "score"
    /\ cidx <= Len(chunks)
    /\ \E r \in RelevanceReplies :
        LET score == IF r.ok /\ parses(r.text) THEN parse_score(r.text) ELSE 0
        IN  /\ relCalls' = Append(relCalls,
                   [chunk |-> cidx, ok |-> r.ok, text |-> r.text])
            /\ IF score_beats(score, best_score)
               THEN /\ best_score' = score
                    /\ best_chunk' = chunks[cidx]
               ELSE UNCHANGED <<best_score, best_chunk>>
    /\ cidx' = cidx + 1
    /\ UNCHANGED <<apc, aidx, chunks, prev_page, next_page, results, compCalls>>
    /\ UNCHANGED <<mergeVars, inputVars, validateVars, filterVars, chunkVars, driverVars, titleVars>>

\* lines 98-127: the scoring call for one chunk
AttachScore ==
    /\ apc = "score"
    /\ cidx <= Len(chunks)
    /\ \E r \in RelevanceReplies :
        /\ relCalls' = Append(relCalls,
               [chunk |-> cidx, ok |-> r.ok, text |-> r.text])
        /\ IF r.ok /\ parses(r.text) /\ score_beats(parse_score(r.text), best_score)
           THEN /\ best_score' = parse_score(r.text)
                /\ best_chunk' = chunks[cidx]
           ELSE UNCHANGED <<best_score, best_chunk>>
    /\ cidx' = cidx + 1
    /\ UNCHANGED <<apc, aidx, chunks, prev_page, next_page, results, compCalls>>
    /\ UNCHANGED <<mergeVars, inputVars, validateVars, filterVars, chunkVars, driverVars, titleVars>>

\* lines 128-136
AttachNeighbours ==
    /\ apc = "score"
    /\ cidx > Len(chunks)
    /\ LET scan == NeighbourScan(contradictions[aidx], full_docs)
       IN  /\ prev_page' = scan.prev
           /\ next_page' = scan.next
           /\ apc' = IF scan.err THEN "aborted" ELSE "repair"
    /\ UNCHANGED <<aidx, chunks, cidx, best_score, best_chunk, results,
                   relCalls, compCalls>>
    /\ UNCHANGED <<mergeVars, inputVars, validateVars, filterVars, chunkVars, driverVars, titleVars>>

\* lines 174-176
Stored(entry, chunk, score) ==
    WithField(WithField(entry, "most_relevant_chunk", chunk),
              "relevance_score", score)

\* lines 138-176 for a chunk that seems incomplete: the completion call
AttachComplete ==
    /\ apc = "repair"
    /\ seems_incomplete(best_chunk)
    /\ \E r \in CompletionReplies :
        /\ compCalls' = Append(compCalls,
               [chunk |-> best_chunk, prev_page |-> prev_page,
                next_page |-> next_page, ok |-> r.ok, text |-> r.text])
        /\ IF r.ok
           THEN /\ best_chunk' = Strip(r.text)
                /\ contradictions' =
                       [contradictions EXCEPT ![aidx] =
                           Stored(@, Strip(r.text), best_score)]
                /\ results' = Append(results, aidx)
           ELSE \* line 172: continue
                UNCHANGED <<best_chunk, contradictions, results>>
    /\ apc' = "next"
    /\ UNCHANGED <<full_docs, aidx, chunks, cidx, best_score, prev_page,
                   next_page, relCalls>>
    /\ UNCHANGED <<mergeVars, validateVars, filterVars, chunkVars, driverVars, titleVars>>

\* lines 138, 174-176 for any other chunk
AttachStore ==
    /\ apc = "repair"
    /\ ~seems_incomplete(best_chunk)
    /\ contradictions' =
           [contradictions EXCEPT ![aidx] = Stored(@, best_chunk, best_score)]
    /\ results' = Append(results, aidx)
    /\ apc' = "next"
    /\ UNCHANGED <<full_docs, aidx, chunks, cidx, best_score, best_chunk,
                   prev_page, next_page, relCalls, compCalls>>
    /\ UNCHANGED <<mergeVars, validateVars, filterVars, chunkVars, driverVars, titleVars>>

\* line 178
AttachReturn ==
    /\ apc = "next"
    /\ aidx = Len(contradictions)
    /\ apc' = "done"
    /\ UNCHANGED <<aidx, chunks, cidx, best_score, best_chunk, prev_page,
                   next_page, results, relCalls, compCalls>>
    /\ UNCHANGED <<mergeVars, inputVars, validateVars, filterVars, chunkVars, driverVars, titleVars>>

NextAttach ==
    AttachSkipTable \/ AttachChunks \/ AttachScore \/ AttachNeighbours
        \/ AttachComplete \/ AttachStore \/ AttachReturn

-----------------------------------------------------------------------------
\* evaluate_contradiction_sources on entries of one chunk and on a corpus in
\* any order, with a page from a table among its pages.

EntryLower == WithField(CandA1, "doc_text", <<"a", ".">>)
EntryOpen == WithField(CandA1, "doc_text", <<"A">>)
EntryAsk == WithField(CandA1, "doc_text", <<"A", "?">>)

RepairPool ==
    {EntryLower, EntryOpen, EntryAsk, EntryWitnessTable, EntryTable, EntryEmpty}

\* doc_adding_tables.py: the paragraph written for a table of page 4
TablePage == WithField(Page("R1", 4, <<"T", ".">>), "type", <<"t", "a", "b", "l", "e">>)

\* pages 4 and 6 of section R1, the table of page 4, pages 4 and 6 of R2
PagePool ==
    {CorpusPage(1), TablePage, CorpusPage(3), CorpusPage(4), Page("R2", 6, <<"E", ".">>)}

\* the lists of up to n different pages, in any order
Shuffled(n) ==
    {docs \in SeqsUpTo(PagePool, n) :
        \A i, j \in 1..Len(docs) : i # j => docs[i] # docs[j]}

InitRepair ==
    /\ contradictions \in SeqsUpTo(RepairPool, MaxRepaired)
    /\ full_docs \in Shuffled(MaxShuffled)
    /\ apc = "next"
    /\ aidx = 0
    /\ chunks = <<>>
    /\ cidx = 1
    /\ best_score = -1
    /\ best_chunk = <<>>
    /\ prev_page = <<>>
    /\ next_page = <<>>
    /\ results = <<>>
    /\ relCalls = <<>>
    /\ compCalls = <<>>

-----------------------------------------------------------------------------
\* The script of find_contr_part.py (lines 181-210): the validated candidates
\* and then the flagged candidates are handed to evaluate_contradiction_sources.

InputFiles == {"correct_contradictions", "corpus", "flagged_contradictions"}

\* The records results_processing.py saves (lines 325-334): the checked
\* entries carry contr_correct, and the correct ones are the filtered list.
CheckedPool ==
    {WithField(entry, "contr_correct", t) :
        entry \in AttachPool, t \in {<<"y", "e", "s">>, <<"n", "o">>}}

InitDriver ==
    /\ readable \in SUBSET InputFiles
    /\ flagged_file \in SeqsUpTo(CheckedPool, MaxFile)
    /\ correct_file =
           SelectIdx(flagged_file,
                     {k \in 1..Len(flagged_file) : is_correct(flagged_file[k])})
    /\ corpus_file \in Corpora
    /\ saved = <<>>
    /\ dpc = "start"

DriverIdle ==
    /\ readable = {}
    /\ correct_file = <<>>
    /\ flagged_file = <<>>
    /\ corpus_file = <<>>
    /\ saved = <<>>
    /\ dpc = "idle"

\* the state of evaluate_contradiction_sources when it is called
AttachCalled ==
    /\ apc' = "next"
    /\ aidx' = 0
    /\ chunks' = <<>>
    /\ cidx' = 1
    /\ best_score' = -1
    /\ best_chunk' = <<>>
    /\ prev_page' = <<>>
    /\ next_page' = <<>>
    /\ results' = <<>>
    /\ relCalls' = <<>>
    /\ compCalls' = <<>>

\* the records json.dump writes: the entries of results, in order
Returned == [k \in 1..Len(results) |-> contradictions[results[k]]]

\* lines 185-191: both files are loaded, then the function is called
DriverLoadCorrect ==
    /\ dpc = "start"
    /\ IF {"correct_contradictions", "corpus"} \subseteq readable
       THEN /\ contradictions' = correct_file
            /\ full_docs' = corpus_file
            /\ AttachCalled
            /\ dpc' = "first"
       ELSE \* open() raises and the script ends
            /\ dpc' = "unreadable"
            /\ UNCHANGED <<inputVars, attachVars>>
    /\ UNCHANGED <<readable, correct_file, flagged_file, corpus_file, saved>>
    /\ UNCHANGED <<mergeVars, validateVars, filterVars, chunkVars, titleVars>>

\* lines 195-196
DriverSaveCorrect ==
    /\ dpc = "first"
    /\ apc = "done"
    /\ saved' = ("final_correct_contr" :> Returned) @@ saved
    /\ dpc' = "saved"
    /\ UNCHANGED <<readable, correct_file, flagged_file, corpus_file>>
    /\ UNCHANGED <<mergeVars, inputVars, validateVars, filterVars, attachVars,
                   chunkVars, titleVars>>

\* lines 200-206: the flagged file is loaded, then the function is called
DriverLoadFlagged ==
    /\ dpc = "saved"
    /\ IF "flagged_contradictions" \in readable
       THEN /\ contradictions' = flagged_file
            /\ AttachCalled
            /\ dpc' = "second"
       ELSE \* open() raises and the script ends
            /\ dpc' = "unreadable"
            /\ UNCHANGED <<contradictions, attachVars>>
    /\ UNCHANGED <<full_docs, readable, correct_file, flagged_file, corpus_file,
                   saved>>
    /\ UNCHANGED <<mergeVars, validateVars, filterVars, chunkVars, titleVars>>

\* lines 209-210
DriverSaveFlagged ==
    /\ dpc = "second"
    /\ apc = "done"
    /\ saved' = ("final_flagged_contr" :> Returned) @@ saved
    /\ dpc' = "done"
    /\ UNCHANGED <<readable, correct_file, flagged_file, corpus_file>>
    /\ UNCHANGED <<mergeVars, inputVars, validateVars, filterVars, attachVars,
                   chunkVars, titleVars>>

NextDriver ==
    DriverLoadCorrect \/ DriverSaveCorrect \/ DriverLoadFlagged
        \/ DriverSaveFlagged \/ NextAttach

-----------------------------------------------------------------------------
\* add_titles_to_entries

\* Two entries of the titles dictionary, under short keys.
titles ==
    [k \in {<<"R", "1">>, <<"C", "5">>} |->
        IF k = <<"R", "1">> THEN "Witness Statement of Johanna Ritter"
        ELSE "Witness Statement Poul Cavendish"]

\* titles.get(key, default), key = <<>> for None
titles_get(key, default) ==
    IF key # <<>> /\ key[1] \in DOMAIN titles THEN titles[key[1]] ELSE default

\* the position of the first ")" of s after position i, 0 when there is none
FirstClose(s, i) ==
    LET closes == {j \in (i + 1)..Len(s) : s[j] = ")"}
    IN  IF closes = {} THEN 0 ELSE CHOOSE j \in closes : \A h \in closes : j <= h

\* the position of the last ")" of s after position i, 0 when there is none
LastClose(s, i) ==
    LET closes == {j \in (i + 1)..Len(s) : s[j] = ")"}
    IN  IF closes = {} THEN 0 ELSE CHOOSE j \in closes : \A h \in closes : j >= h

\* the positions at which \(([^)]+)\) matches
ParenStarts(s) == {i \in 1..Len(s) : s[i] = "(" /\ FirstClose(s, i) > i + 1}

\* re.search(r'\((.+)\)', s).group(1)
paren_group_greedy(s) ==
    LET i == CHOOSE i \in 1..Len(s) :
                 /\ s[i] = "(" /\ LastClose(s, i) > i + 1
                 /\ \A h \in 1..(i - 1) : ~(s[h] = "(" /\ LastClose(s, h) > h + 1)
    IN  SubSeq(s, i + 1, LastClose(s, i) - 1)

\* re.search(r'\(([^)]+)\)', s).group(1), defined when ParenStarts(s) # {}
paren_group(s) ==
    LET i == CHOOSE i \in ParenStarts(s) : \A h \in ParenStarts(s) : i <= h
    IN  SubSeq(s, i + 1, FirstClose(s, i) - 1)

\* lines 150-166: the body of the loop for one entry
add_titles(entry) ==
    LET section_d == Get(entry, "doc_section")
        section_w == Get(entry, "witness_section")
        with_doc == WithField(entry, "doc_title",
                              titles_get(section_d, "Unknown Section"))
    IN  IF section_w = <<>> \/ section_w[1] = <<>> THEN with_doc
        ELSE IF ParenStarts(section_w[1]) # {}
        THEN WithField(with_doc, "witness_title",
                       titles_get(<<paren_group(section_w[1])>>,
                                  "Unknown Witness Section"))
        ELSE WithField(with_doc, "witness_title", "Unknown Witness Section")

\* the values of doc_section and of witness_section in the merged list
DocSections == {<<"R", "1">>, <<"R", "9">>}

WitnessSections ==
    {<<>>,
     <<"W", " ", "(", "C", "5", ")">>,
     <<"W", " ", "(", "C", "9", ")">>,
     <<"(", ")", "(", "C", "5", ")">>,
     <<"(", "C", "5">>,
     <<"W">>}

\* a candidate with a doc_section, with or without a witness_section
Titled(section_d, sections_w) ==
    {WithField(CandA1, "doc_section", section_d)}
        \cup {WithField(WithField(CandA1, "doc_section", section_d),
                        "witness_section", w) : w \in sections_w}

TitlePool ==
    UNION {Titled(d, WitnessSections) : d \in DocSections}
        \cup {Without(CandA1, "doc_section")}

InitTitle ==
    /\ merged_data \in SeqsUpTo(TitlePool, MaxMerged)
    /\ updated_data = merged_data
    /\ tidx = 0
    /\ tpc = "loop"

TitleIdle ==
    /\ merged_data = <<>>
    /\ updated_data = <<>>
    /\ tidx = 0
    /\ tpc = "idle"

\* lines 150-166 for the next entry
TitleEntry ==
    /\ tpc = "loop"
    /\ tidx < Len(updated_data)
    /\ tidx' = tidx + 1
    /\ updated_data' = [updated_data EXCEPT ![tidx + 1] = add_titles(@)]
    /\ UNCHANGED <<merged_data, tpc>>
    /\ UNCHANGED <<mergeVars, inputVars, validateVars, filterVars, attachVars,
                   chunkVars, driverVars>>

\* line 168
TitleReturn ==
    /\ tpc = "loop"
    /\ tidx = Len(updated_data)
    /\ tpc' = "done"
    /\ UNCHANGED <<merged_data, updated_data, tidx>>
    /\ UNCHANGED <<mergeVars, inputVars, validateVars, filterVars, attachVars,
                   chunkVars, driverVars>>

NextTitle == TitleEntry \/ TitleReturn

-----------------------------------------------------------------------------
\* The specifications: one per function, the others idle.

InitSpecMerge ==
    InitMerge /\ InputIdle /\ ValidateIdle /\ FilterIdle /\ AttachIdle /\ ChunkIdle
        /\ DriverIdle /\ TitleIdle

SpecMerge == InitSpecMerge /\ [][NextMerge]_vars

InitSpecValidate ==
    MergeIdle /\ InitValidate /\ FilterIdle /\ AttachIdle /\ ChunkIdle
        /\ DriverIdle /\ TitleIdle

SpecValidate == InitSpecValidate /\ [][NextValidate]_vars

InitSpecFilter ==
    MergeIdle /\ ValidateIdle /\ InitFilter /\ AttachIdle /\ ChunkIdle
        /\ DriverIdle /\ TitleIdle

SpecFilter == InitSpecFilter /\ [][NextFilter]_vars

InitSpecAttach ==
    MergeIdle /\ ValidateIdle /\ FilterIdle /\ InitAttach /\ ChunkIdle
        /\ DriverIdle /\ TitleIdle

SpecAttach == InitSpecAttach /\ [][NextAttach]_vars

InitSpecChunk ==
    MergeIdle /\ InputIdle /\ ValidateIdle /\ FilterIdle /\ AttachIdle /\ InitChunk
        /\ DriverIdle /\ TitleIdle

SpecChunk == InitSpecChunk /\ [][NextChunk]_vars

InitSpecDriver ==
    MergeIdle /\ InputIdle /\ ValidateIdle /\ FilterIdle /\ AttachIdle /\ ChunkIdle
        /\ InitDriver /\ TitleIdle

SpecDriver == InitSpecDriver /\ [][NextDriver]_vars

InitSpecRepair ==
    MergeIdle /\ ValidateIdle /\ FilterIdle /\ InitRepair /\ ChunkIdle
        /\ DriverIdle /\ TitleIdle

SpecRepair == InitSpecRepair /\ [][NextAttach]_vars

InitSpecTitle ==
    MergeIdle /\ InputIdle /\ ValidateIdle /\ FilterIdle /\ AttachIdle /\ ChunkIdle
        /\ DriverIdle /\ InitTitle

SpecTitle == InitSpecTitle /\ [][NextTitle]_vars

-----------------------------------------------------------------------------
\* Properties of merge_unique_contradictions (SpecMerge).

\* the (docSection, docPage, witnessText) key of a loaded record
Key(ref) ==
    <<Get(Entry(ref), "doc_section"), Get(Entry(ref), "doc_page"),
      Get(Entry(ref), "witness_statement")>>

\* the record carries the "Contradiction:" tag
Eligible(entry) == "result" \in DOMAIN entry /\ "Contradiction:" \in Range(entry.result)

DupCallsFor(b) == {k \in 1..Len(dupCalls) : dupCalls[k].b = b}

SaidYes(call) == call.ok /\ call.text \in DupYesTexts

SaidNo(call) == call.ok /\ call.text \in DupNoTexts

\* the candidates that were in the merged list when b was looked at
MergedBefore(b) ==
    {a \in Range(data1) : a.file = "A" \/ (a.file = "B" /\ a.pos < b.pos)}

\* C2: when the merge has returned, an eligible candidate b of the second
\* file is missing from the merged list exactly if the model answered yes
\* for b and some candidate a of the merged list with b's key; with one
\* candidate in each file and the same key, a yes leaves one candidate in
\* the merged list and a no leaves two.
C2_DroppedIffAnsweredYes ==
    mpc = "done" =>
        /\ \A j \in 1..Len(setB) :
              Eligible(setB[j]) =>
                  (Ref("B", j) \notin Range(data1)
                      <=> \E k \in DupCallsFor(Ref("B", j)) :
                             /\ SaidYes(dupCalls[k])
                             /\ dupCalls[k].a \in MergedBefore(Ref("B", j))
                             /\ Key(dupCalls[k].a) = Key(Ref("B", j)))
        /\ (setA = <<CandA1>> /\ setB = <<CandA2>>) =>
              /\ Len(dupCalls) = 1
              /\ Len(data1) = IF SaidYes(dupCalls[1]) THEN 1 ELSE 2

\* C2 witness: a merge that dropped one candidate of the second file on a
\* yes and kept another with the same key on a no.
C2_Witness ==
    /\ mpc = "done"
    /\ \E j1, j2 \in 1..Len(setB) :
          /\ Ref("B", j1) \in Range(data1)
          /\ \E k \in DupCallsFor(Ref("B", j1)) : SaidNo(dupCalls[k])
          /\ Ref("B", j2) \notin Range(data1)
          /\ \E k \in DupCallsFor(Ref("B", j2)) : SaidYes(dupCalls[k])

\* C3: the model is only ever asked about two candidates with the same key,
\* and a candidate of the second file whose key no candidate of the merged
\* list had when it was looked at is in the merged list, whatever the model
\* answered elsewhere.
C3_DifferentKeysNeverCollapsed ==
    /\ \A k \in 1..Len(dupCalls) : Key(dupCalls[k].a) = Key(dupCalls[k].b)
    /\ \A p \in 1..Len(data2) :
          ((mpc = "scan" /\ p < bi) \/ mpc = "done") =>
              ((\A a \in MergedBefore(data2[p]) : Key(a) # Key(data2[p]))
                  => data2[p] \in Range(data1))

\* C3 witness: the model answered yes for one candidate of the second file,
\* and another one, whose key is in the merged list only once, was appended.
C3_Witness ==
    /\ mpc = "done"
    /\ \E k \in 1..Len(dupCalls) : SaidYes(dupCalls[k])
    /\ \E p \in 1..Len(data2) :
          /\ data2[p] \in Range(data1)
          /\ \A a \in Range(data1) : a # data2[p] => Key(a) # Key(data2[p])
          /\ \E a \in Range(data1) : a # data2[p]

\* C7: a call about (a, b) that raises is taken as the answer no: the merge
\* goes on to the next candidate of the merged list and does not stop.
C7_DupErrorTakenAsNo ==
    \A k \in 1..Len(dupCalls) :
        ~dupCalls[k].ok =>
            /\ mpc # "aborted"
            /\ (k = Len(dupCalls) /\ mpc = "scan" /\ bi <= Len(data2)
                    /\ data2[bi] = dupCalls[k].b)
                  => ~match_found

-----------------------------------------------------------------------------
\* Properties of check_contradictions_with_context (SpecValidate).

ExtractCalls == {k \in 1..Len(valCalls) : valCalls[k].oracle = "extract"}

JudgeCalls == {k \in 1..Len(valCalls) : valCalls[k].oracle = "judge"}

\* the entry at idx has been dealt with
EntryDecided == idx >= 1 /\ vpc \in {"next", "done"}

\* the three extractions for the entry at idx all came back empty
AllExtractionsEmpty ==
    /\ {valCalls[k].part : k \in ExtractCalls} = 1..NumChunks
    /\ \A k \in ExtractCalls : valCalls[k].ok /\ Strip(valCalls[k].text) = <<>>

\* C4: an entry whose three extractions all came back empty is not in the
\* validator's output.
C4_NoContextDropped ==
    (EntryDecided /\ AllExtractionsEmpty) => idx \notin Range(updated_contradictions)

\* C8: a decision call that raises drops that entry only: the function goes
\* on to the next entry and does not stop.
C8_JudgeErrorDropsEntry ==
    \A k \in JudgeCalls :
        ~valCalls[k].ok =>
            /\ vpc # "aborted"
            /\ idx \notin Range(updated_contradictions)

\* C9: an extraction call that raises counts as an empty extraction for its
\* chunk of documents: the next chunk is asked about and the function does
\* not stop.
C9_ExtractErrorIsEmpty ==
    \A k \in ExtractCalls :
        ~valCalls[k].ok =>
            /\ vpc # "aborted"
            /\ Len(relevant_context_parts) >= valCalls[k].part
            /\ relevant_context_parts[valCalls[k].part]
                   = ContextPart(valCalls[k].part, <<>>)

-----------------------------------------------------------------------------
\* Properties of filter_correct_contr (SpecFilter).

\* the decision texts that say yes
ValidTexts == {<<"y", "e", "s">>, <<"y", "e", "s", ".">>}

contextVerdict(entry) ==
    IF "contr_correct" \notin DOMAIN entry THEN "unknown"
    ELSE IF entry.contr_correct \in ValidTexts THEN "valid"
    ELSE "invalid"

Increasing(s) == \A i, j \in 1..Len(s) : i < j => s[i] < s[j]

\* C10: filter_correct_contr returns exactly the entries whose verdict is
\* valid, in the order of its input, and applied to its own output it gives
\* that output again.
C10_FilterExactAndIdempotent ==
    /\ fpc \in {"filtered", "refiltered"} =>
          /\ Range(correct_contr) =
                 {k \in 1..Len(contradictions) :
                     contextVerdict(contradictions[k]) = "valid"}
          /\ Increasing(correct_contr)
    /\ fpc = "refiltered" => refiltered = correct_contr

\* C10 witness: a filtered list that keeps some entry and leaves out both an
\* entry with verdict invalid and an entry without verdict.
C10_Witness ==
    /\ fpc = "refiltered"
    /\ correct_contr # <<>>
    /\ \E k \in 1..Len(contradictions) :
          contextVerdict(contradictions[k]) = "invalid"
    /\ \E k \in 1..Len(contradictions) :
          contextVerdict(contradictions[k]) = "unknown"

-----------------------------------------------------------------------------
\* Properties of evaluate_contradiction_sources (SpecAttach).

\* the chunks of the entry at aidx whose scoring call gave a number
Scored == {k \in 1..Len(relCalls) : relCalls[k].ok /\ HasDigits(relCalls[k].text)}

ScoreOf(k) == parse_score(relCalls[k].text)

Scores == [k \in 1..Len(relCalls) |-> IF k \in Scored THEN ScoreOf(k) ELSE -1]

\* the lowest position among the chunks with the highest score
FirstMax ==
    CHOOSE k \in Scored :
        \A j \in Scored :
            ScoreOf(j) < ScoreOf(k) \/ (ScoreOf(j) = ScoreOf(k) /\ k <= j)

\* the entry at aidx has been dealt with, and it is not from a table
EntryAttached ==
    /\ aidx >= 1
    /\ apc \in {"next", "done"}
    /\ "doc_type" \notin DOMAIN contradictions[aidx]

\* C1: after the scoring loop the selected chunk is the first chunk, in
\* chunk order, that has the highest score among the scored chunks, and it
\* is what the entry carries when no completion was asked for; scores
\* 7, 9, 9 select the second chunk.
C1_FirstMaxWins ==
    /\ (apc = "repair" /\ Scored # {}) =>
          /\ best_chunk = chunks[FirstMax]
          /\ best_score = ScoreOf(FirstMax)
    /\ (apc = "repair" /\ Scores = <<7, 9, 9>>) => best_chunk = chunks[2]
    /\ (EntryAttached /\ Scored # {} /\ compCalls = <<>>) =>
          /\ aidx \in Range(results)
          /\ contradictions[aidx].most_relevant_chunk = chunks[FirstMax]

\* C1 witness: three chunks scored 7, 9, 9 and the second one selected.
C1_Witness ==
    /\ apc = "repair"
    /\ Len(chunks) = 3
    /\ Scores = <<7, 9, 9>>
    /\ best_chunk = chunks[2]
    /\ chunks[2] # chunks[3]

\* C5: when the completion call raises, the entry is in the output with the
\* chunk that was selected and that chunk's score.
C5_CompletionErrorKeepsChunk ==
    (EntryAttached /\ compCalls # <<>> /\ ~compCalls[1].ok) =>
        /\ aidx \in Range(results)
        /\ contradictions[aidx].most_relevant_chunk = compCalls[1].chunk
        /\ contradictions[aidx].relevance_score = best_score

\* C6: an entry none of whose chunks got a score (or that has no chunks) is
\* in the output with an empty chunk and the score 0.
C6_NoScoreGivesZero ==
    (EntryAttached /\ Scored = {}) =>
        /\ aidx \in Range(results)
        /\ contradictions[aidx].most_relevant_chunk = <<>>
        /\ contradictions[aidx].relevance_score = 0

-----------------------------------------------------------------------------
\* Further properties of merge_unique_contradictions (SpecMerge).

\* the records of the first file, in file order
AllOfA == [i \in 1..Len(setA) |-> Ref("A", i)]

\* the records of the first file that carry the tag, in file order
EligibleOfA == SelectIdx(AllOfA, {i \in 1..Len(setA) : Eligible(setA[i])})

\* C11 as stated: with an empty second file the merge returns every record
\* of the first file, in order and nothing else, and asks the model nothing.
C11_MergeWithEmptyIsIdentity ==
    (mpc = "done" /\ setB = <<>>) => (data1 = AllOfA /\ dupCalls = <<>>)

\* C11, amended: with an empty second file the merge returns the records of
\* the first file that carry the "Contradiction:" tag, in file order and
\* nothing else, and the model is never asked.
C11_MergeWithEmptyKeepsTagged ==
    setB = <<>> =>
        /\ dupCalls = <<>>
        /\ mpc = "done" => data1 = EligibleOfA

C11_Witness ==
    /\ mpc = "done"
    /\ setB = <<>>
    /\ Len(setA) = 2
    /\ ~Eligible(setA[1])
    /\ data1 = <<Ref("A", 2)>>

\* the verdict text starts with the "Neutral:" tag
IsNeutral(entry) ==
    "result" \in DOMAIN entry /\ entry.result # <<>> /\ entry.result[1] = "Neutral:"

\* every record the merge has kept or shown to the model so far
Handled ==
    Range(data1) \cup Range(data2)
        \cup {dupCalls[k].a : k \in 1..Len(dupCalls)}
        \cup {dupCalls[k].b : k \in 1..Len(dupCalls)}

\* C14 as stated: a record whose verdict text starts with "Neutral:", from
\* either file, is never in the merged list and never part of a call.
C14_NeutralNeverMerged == \A ref \in Handled : ~IsNeutral(Entry(ref))

\* C14, amended: every record of the merged list carries the
\* "Contradiction:" tag somewhere in its verdict text, and a record without
\* the tag, from either file, is never in the merged list and never part of
\* a call.
C14_UntaggedNeverMerged == \A ref \in Handled : Eligible(Entry(ref))

C14_Witness ==
    /\ mpc = "done"
    /\ \E i \in 1..Len(setA) : ~Eligible(setA[i])
    /\ \E i \in 1..Len(setB) : ~Eligible(setB[i])
    /\ Len(data1) = 1
    /\ Len(dupCalls) = 1

\* the position of a record in a list that holds it once
PosIn(list, ref) == CHOOSE i \in 1..Len(list) : list[i] = ref

\* the call about entry1 = a and entry2 = b was made before call k
AskedBefore(k, a, b) ==
    \E j \in 1..(k - 1) : dupCalls[j].a = a /\ dupCalls[j].b = b

\* C15: the calls are made for the records of the second file in file order;
\* for one record of the second file the records of the merged list with
\* the same key are asked about in merged-list order, none passed over,
\* and after an answer of yes no further call is made for that record.
C15_CallsFollowLoopOrder ==
    /\ \A k \in 1..Len(dupCalls) :
           LET c == dupCalls[k]
           IN  /\ Key(c.a) = Key(c.b)
               /\ \A i \in 1..(PosIn(data1, c.a) - 1) :
                      Key(data1[i]) = Key(c.b) => AskedBefore(k, data1[i], c.b)
    /\ \A k \in 1..(Len(dupCalls) - 1) :
           LET c == dupCalls[k]
               d == dupCalls[k + 1]
           IN  /\ c.b.file = "B" /\ d.b.file = "B"
               /\ c.b.pos <= d.b.pos
               /\ c.b = d.b =>
                      /\ PosIn(data1, c.a) < PosIn(data1, d.a)
                      /\ ~SaidYes(c)

C15_Witness ==
    /\ mpc = "done"
    /\ Len(dupCalls) = 3
    /\ dupCalls[1].b = dupCalls[2].b
    /\ SaidNo(dupCalls[1])
    /\ SaidYes(dupCalls[2])
    /\ dupCalls[3].b # dupCalls[2].b

-----------------------------------------------------------------------------
\* Further properties of check_contradictions_with_context (SpecValidate).

\* C17: the corpus, of any length n >= 0, is cut into exactly three slices
\* whose concatenation in order is the corpus; the first two hold n \div 3
\* pages each and the third holds the rest.
C17_ThreeContiguousSlices ==
    vpc \notin {"idle", "open"} =>
        LET n == Len(full_docs)
        IN  /\ Len(doc_chunks) = 3
            /\ doc_chunks[1] \o doc_chunks[2] \o doc_chunks[3] = full_docs
            /\ Len(doc_chunks[1]) = n \div 3
            /\ Len(doc_chunks[2]) = n \div 3
            /\ Len(doc_chunks[3]) = n - 2 * (n \div 3)

C17_Witness ==
    /\ vpc = "done"
    /\ Len(full_docs) % 3 # 0
    /\ Len(doc_chunks[1]) >= 1
    /\ Len(doc_chunks[3]) > Len(doc_chunks[1])

\* the calls for the entry at idx are, in this order, the extraction calls
\* for the chunks of documents 1, 2, 3 and then at most one decision call
CallsInLoopOrder ==
    /\ Len(valCalls) <= NumChunks + 1
    /\ \A k \in 1..Len(valCalls) :
           IF k <= NumChunks
           THEN valCalls[k].oracle = "extract" /\ valCalls[k].part = k
           ELSE valCalls[k].oracle = "judge"
    /\ EntryDecided => ExtractCalls = 1..NumChunks

\* C21: for each entry the extraction calls are made for the chunks of
\* documents 1, 2, 3 in this order, exactly three for an entry that is dealt
\* with; the decision call is made at most once, after the three, and only
\* if the three extractions did not all come back empty.
C21_CallsOrderedAndJudgeNeedsContext ==
    /\ CallsInLoopOrder
    /\ JudgeCalls # {} => ~AllExtractionsEmpty

-----------------------------------------------------------------------------
\* Properties of break_into_chunks (SpecChunk).

\* the characters of s that are not whitespace, in order
NonWhite(s) == SelectSeq(s, LAMBDA c : c \notin WhiteChars)

\* the paragraph starts with a lowercase letter or a digit
StartsWrapped(p) == p # <<>> /\ p[1] \in LowerChars \cup DigitChars

\* a paragraph after the first starts with a lowercase letter or a digit
SomeLaterStartsWrapped ==
    \E k \in 2..Len(paragraphs) : StartsWrapped(paragraphs[k])

SingleLine(s) == \A i \in 1..Len(s) : s[i] # "\n"

Chunked == cpc \in {"chunked", "rechunked"}

\* every chunk is non-empty and has no whitespace at either end, and the
\* chunks hold the text's printing characters once each, in text order
TrimmedInOrder ==
    /\ \A k \in 1..Len(paragraphs) :
           /\ paragraphs[k] # <<>>
           /\ paragraphs[k][1] \notin WhiteChars
           /\ paragraphs[k][Len(paragraphs[k])] \notin WhiteChars
    /\ NonWhite(Flatten(paragraphs)) = NonWhite(input_text)

\* C13 as stated: a non-empty text without a line break gives exactly one
\* chunk, and every text gives non-empty trimmed chunks in text order.
C13_SingleLineIsOneChunk ==
    Chunked =>
        /\ (input_text # <<>> /\ SingleLine(input_text)) => Len(paragraphs) = 1
        /\ TrimmedInOrder

\* C13, amended: a text without a line break that holds a printing character
\* gives exactly one chunk, the text stripped; a text without a line break
\* that is empty or all spaces gives no chunk; every text gives non-empty
\* trimmed chunks in text order.
C13_SingleLineIsOneChunkUnlessBlank ==
    Chunked =>
        /\ SingleLine(input_text) =>
               paragraphs = IF NonWhite(input_text) = <<>> THEN <<>>
                            ELSE <<Strip(input_text)>>
        /\ TrimmedInOrder

C13_Witness ==
    /\ cpc = "chunked"
    /\ SingleLine(input_text)
    /\ Len(input_text) = MaxText
    /\ input_text[1] = " "
    /\ Len(paragraphs) = 1
    /\ Len(paragraphs[1]) = 2

-----------------------------------------------------------------------------
\* Further properties of evaluate_contradiction_sources (SpecAttach).

DocFromTable(entry) == "doc_type" \in DOMAIN entry

WitnessFromTable(entry) == "w_s_type" \in DOMAIN entry

\* the entry at position i is as it was loaded; once the loop has reached it,
\* it is in the results and no call was made for it
PassedThrough(i) ==
    /\ contradictions[i] \in AttachPool
    /\ i <= aidx => i \in Range(results)
    /\ i = aidx => (apc \in {"next", "done"} /\ relCalls = <<>> /\ compCalls = <<>>)

\* C16 as stated: an entry with a table on either side, the witness side or
\* the document side, is passed through with its fields unchanged and
\* without any call.
C16_EitherTableSidePassedThrough ==
    \A i \in 1..Len(contradictions) :
        (DocFromTable(contradictions[i]) \/ WitnessFromTable(contradictions[i]))
            => PassedThrough(i)

\* C16, amended: an entry whose document side comes from a table is passed
\* through with its fields unchanged and without any call; an entry with a
\* table on the witness side only is chunked and scored like any other.
C16_DocTableSidePassedThrough ==
    \A i \in 1..Len(contradictions) :
        /\ DocFromTable(contradictions[i]) => PassedThrough(i)
        /\ (/\ WitnessFromTable(contradictions[i])
            /\ ~DocFromTable(contradictions[i])
            /\ i = aidx
            /\ apc \in {"next", "done"})
               => Len(relCalls) = Len(chunks) /\ relCalls # <<>>

C16_Witness ==
    /\ aidx = 2
    /\ apc = "next"
    /\ contradictions[1] = EntryTable
    /\ results = <<1, 2>>
    /\ WitnessFromTable(contradictions[2])
    /\ "most_relevant_chunk" \in DOMAIN contradictions[2]
    /\ Len(relCalls) = 1

\* C18: every relevance_score of the returned entries is an integer from 1
\* to 10, or 0 when none was computed; never negative and never above 10.
C18_ScoreInRange ==
    \A i \in Range(results) :
        "relevance_score" \in DOMAIN contradictions[i]
            => contradictions[i].relevance_score \in 0..10

RequiredFields == {"result", "doc_text", "doc_page"}

\* the entry the loop is at lacks a required field
CurrentLacksField ==
    /\ aidx >= 1
    /\ ~DocFromTable(contradictions[aidx])
    /\ ~(RequiredFields \subseteq DOMAIN contradictions[aidx])

\* C20: an entry that lacks 'result', 'doc_text' or 'doc_page' fails alone:
\* the function is not left, and the entries after it are still processed.
C20_MissingFieldFailsOneEntry == CurrentLacksField => apc # "aborted"

-----------------------------------------------------------------------------
\* Properties of the script of find_contr_part.py (SpecDriver).

\* C19: when an input file cannot be read, the script ends before any
\* scoring or completion call: in the state it ends in, no call is on record.
C19_UnreadableInputAbortsBeforeCalls ==
    dpc = "unreadable" => (relCalls = <<>> /\ compCalls = <<>>)

-----------------------------------------------------------------------------
\* Properties of add_titles_to_entries (SpecTitle).

\* the spans (i, j) of s that are a "(" at i, a ")" at j and, between them,
\* one character or more and no ")"
ParenSpans(s) ==
    {sp \in (1..Len(s)) \X (1..Len(s)) :
        /\ s[sp[1]] = "(" /\ s[sp[2]] = ")"
        /\ sp[2] > sp[1] + 1
        /\ \A h \in (sp[1] + 1)..(sp[2] - 1) : s[h] # ")"}

\* the identifier of the leftmost span
ParenId(s) ==
    LET sp == CHOOSE sp \in ParenSpans(s) : \A o \in ParenSpans(s) : sp[1] <= o[1]
    IN  SubSeq(s, sp[1] + 1, sp[2] - 1)

InIndex(key) == key \in DOMAIN titles

TitleFields == {"doc_title", "witness_title"}

\* the entry after carries the titles the claim names for the entry before,
\* and is the entry before in every other field
Annotated(before, after) ==
    /\ "doc_title" \in DOMAIN after
    /\ after.doc_title =
           IF "doc_section" \in DOMAIN before /\ InIndex(before.doc_section)
           THEN titles[before.doc_section] ELSE "Unknown Section"
    /\ ("witness_section" \in DOMAIN before
           /\ ParenSpans(before.witness_section) # {}) =>
           /\ "witness_title" \in DOMAIN after
           /\ after.witness_title =
                  IF InIndex(ParenId(before.witness_section))
                  THEN titles[ParenId(before.witness_section)]
                  ELSE "Unknown Witness Section"
    /\ DOMAIN before \subseteq DOMAIN after
    /\ DOMAIN after \subseteq DOMAIN before \cup TitleFields
    /\ \A f \in DOMAIN before \ TitleFields : after[f] = before[f]

\* C22: every entry the loop has passed has doc_title = titles[doc_section]
\* or "Unknown Section", and, when its witness_section holds a parenthesised
\* identifier, witness_title = titles[identifier] or "Unknown Witness
\* Section"; no other field is changed and the list keeps its entries and
\* their order.
C22_TitlesAdded ==
    /\ Len(updated_data) = Len(merged_data)
    /\ \A k \in 1..Len(merged_data) :
           IF k <= tidx THEN Annotated(merged_data[k], updated_data[k])
           ELSE updated_data[k] = merged_data[k]

C22_Witness ==
    /\ tpc = "done"
    /\ Len(updated_data) = 2
    /\ "witness_title" \in DOMAIN updated_data[1]
    /\ updated_data[1].witness_title = "Witness Statement Poul Cavendish"
    /\ updated_data[1].doc_title = "Witness Statement of Johanna Ritter"
    /\ merged_data[1].witness_section[1] = "("
    /\ updated_data[2].doc_title = "Unknown Section"
    /\ "witness_title" \in DOMAIN updated_data[2]
    /\ updated_data[2].witness_title = "Unknown Witness Section"
    /\ ParenSpans(merged_data[2].witness_section) # {}

\* the candidate of a saved record: the record without the two fields
\* evaluate_contradiction_sources adds
Candidate(record) ==
    [f \in DOMAIN record \ {"most_relevant_chunk", "relevance_score"} |-> record[f]]

\* the candidates of the records saved under a file name, in order
SavedCandidates(name) == [k \in 1..Len(saved[name]) |-> Candidate(saved[name][k])]

\* the entries of the checked list whose verdict is valid, in order
ValidOfChecked ==
    SelectSeq(flagged_file, LAMBDA entry : contextVerdict(entry) = "valid")

\* C23: whatever the calls answer, final_correct_contr.json holds exactly the
\* entries of the checked list whose verdict is valid, none missing and none
\* with another verdict, and final_flagged_contr.json holds every entry of
\* the checked list.
C23_ArtifactsHoldEveryCandidate ==
    /\ "final_correct_contr" \in DOMAIN saved =>
           SavedCandidates("final_correct_contr") = ValidOfChecked
    /\ "final_flagged_contr" \in DOMAIN saved =>
           SavedCandidates("final_flagged_contr") = flagged_file

-----------------------------------------------------------------------------
\* Properties of the completion step of evaluate_contradiction_sources
\* (SpecRepair).

\* the chunk selected by the scoring loop for the entry at aidx
Selected == IF Scored = {} THEN <<>> ELSE chunks[FirstMax]

\* a text that does not end a sentence or does not begin with a capital
Truncated(chunk) ==
    \/ chunk[Len(chunk)] \notin {".", "!", "?"}
    \/ chunk[1] \notin UpperChars

\* C24: the completion is asked for exactly when a chunk was selected and it
\* does not end in '.', '!' or '?' or does not begin with a capital, once
\* and about that chunk; when it is not asked for, the entry carries the
\* selected chunk as it was scored.
C24_CompletionIffTruncated ==
    /\ Len(compCalls) <= 1
    /\ compCalls # <<>> => compCalls[1].chunk = Selected
    /\ apc \in {"score", "repair"} => compCalls = <<>>
    /\ EntryAttached =>
          /\ compCalls # <<>> <=> (Selected # <<>> /\ Truncated(Selected))
          /\ compCalls = <<>> =>
                /\ aidx \in Range(results)
                /\ contradictions[aidx].most_relevant_chunk = Selected

\* C24 witness: the chunk "a." got a score, ends a sentence and begins with
\* a small letter, and the completion was asked for.
C24_Witness ==
    /\ EntryAttached
    /\ Selected = <<"a", ".">>
    /\ Len(compCalls) = 1

\* the chunk "A?" got a score and the completion was not asked for
C24_WitnessComplete ==
    /\ EntryAttached
    /\ Selected = <<"A", "?">>
    /\ compCalls = <<>>
    /\ contradictions[aidx].most_relevant_chunk = <<"A", "?">>

\* the positions in the corpus of the records of the entry's section whose
\* page number is the entry's plus delta
Neighbours(entry, delta) ==
    {k \in 1..Len(full_docs) :
        /\ Get(full_docs[k], "section") = <<entry.doc_section>>
        /\ Get(full_docs[k], "page") = <<entry.doc_page + delta>>}

\* those of them that are pages of the document, not tables
ProsePages(entry, delta) ==
    {k \in Neighbours(entry, delta) : "type" \notin DOMAIN full_docs[k]}

TextsAt(positions) == {full_docs[k].text : k \in positions}

\* the text is that of the neighbouring page: of the page of the document
\* when there is one, of a record with that section and page otherwise, and
\* empty when there is none
NeighbourText(t, entry, delta) ==
    IF ProsePages(entry, delta) # {} THEN t \in TextsAt(ProsePages(entry, delta))
    ELSE IF Neighbours(entry, delta) # {} THEN t \in TextsAt(Neighbours(entry, delta))
    ELSE t = <<>>

\* C25: the texts handed to the completion call as previous and next page
\* are the texts of the pages of the entry's section numbered one less and
\* one more than the entry's page, or empty where there is no such page, in
\* whatever order the corpus is and also when a table shares the section
\* and number of such a page.
C25_NeighboursArePageTexts ==
    \A k \in 1..Len(compCalls) :
        /\ NeighbourText(compCalls[k].prev_page, contradictions[aidx], -1)
        /\ NeighbourText(compCalls[k].next_page, contradictions[aidx], 1)

\* the texts handed over are texts of records with the entry's section and
\* the neighbouring page numbers, tables included
C25_NeighboursAreRecordTexts ==
    \A k \in 1..Len(compCalls) :
        LET entry == contradictions[aidx]
            from(t, delta) ==
                IF Neighbours(entry, delta) = {} THEN t = <<>>
                ELSE t \in TextsAt(Neighbours(entry, delta))
        IN  from(compCalls[k].prev_page, -1) /\ from(compCalls[k].next_page, 1)

-----------------------------------------------------------------------------
\* Properties of the scoring loop of evaluate_contradiction_sources
\* (SpecAttach).

\* the chunks of the entry at aidx whose scoring call raised or gave no number
Unscored == (1..Len(relCalls)) \ Scored

\* C26: a chunk whose scoring call raises or answers without a number is
\* left out and not given the score 0: every chunk is asked about in turn
\* whatever happened to the chunks before it, the chunk selected is the
\* first with the highest score among the chunks that got one, and when
\* no chunk got a score none is selected.
C26_FailedChunkSkipped ==
    /\ apc \in {"score", "repair"} =>
          /\ Len(relCalls) = cidx - 1
          /\ \A k \in 1..Len(relCalls) : relCalls[k].chunk = k
    /\ apc = "repair" =>
          /\ Len(relCalls) = Len(chunks)
          /\ best_chunk = Selected
          /\ Scored = {} => (best_chunk = <<>> /\ best_score = -1)
          /\ \A k \in Unscored :
                best_chunk = chunks[k] => \E j \in Scored : chunks[j] = chunks[k]

\* C26 witness: the first call raised, the second answered without a number,
\* the third chunk was still asked about and is the one selected.
C26_Witness ==
    /\ apc = "repair"
    /\ Len(chunks) = 3
    /\ ~relCalls[1].ok
    /\ relCalls[2].ok /\ ~HasDigits(relCalls[2].text)
    /\ Scored = {3}
    /\ best_chunk = chunks[3]

-----------------------------------------------------------------------------
\* The merged list as a whole (SpecMerge).

\* the prompt of a call shows the two result texts and nothing else
Asked(call) == <<Entry(call.a).result, Entry(call.b).result>>

\* the model gave the same answer whenever it was shown the same two texts
DetOracle ==
    \A k, l \in 1..Len(dupCalls) :
        (dupCalls[k].ok /\ dupCalls[l].ok /\ Asked(dupCalls[k]) = Asked(dupCalls[l]))
            => (SaidYes(dupCalls[k]) <=> SaidYes(dupCalls[l]))

\* the model answered yes when shown the texts of x and y
JudgedSame(x, y) ==
    \E k \in 1..Len(dupCalls) :
        SaidYes(dupCalls[k]) /\ Asked(dupCalls[k]) = <<Entry(x).result, Entry(y).result>>

\* the candidates at i < j of the merged list differ, have one key, and the
\* model takes them for the same contradiction
Duplicates(i, j) ==
    /\ Entry(data1[i]) # Entry(data1[j])
    /\ Key(data1[i]) = Key(data1[j])
    /\ JudgedSame(data1[i], data1[j])

\* C27: with a model that answers the same question the same way, the
\* merged list that is returned holds no two different candidates with the
\* same key that the model takes for the same contradiction, wherever the
\* two came from.
C27_MergedIsDeduplicated ==
    (mpc = "done" /\ DetOracle) =>
        \A i, j \in 1..Len(data1) : i < j => ~Duplicates(i, j)

\* the same for two candidates of which the later is from the second file
C27_SecondFileIsDeduplicated ==
    (mpc = "done" /\ DetOracle) =>
        \A i, j \in 1..Len(data1) :
            (i < j /\ data1[j].file = "B") => ~Duplicates(i, j)

=============================================================================
